---- MODULE Spec2Model ----
(***************************************************************************)
(* A model of enterprise_extensions/frequentist/optimal_statistic.py: the  *)
(* OptimalStatistic engine (construction, compute_os, the cached matrix    *)
(* products) and its two chain drivers (noise-marginalized and             *)
(* noise-maximized).                                                       *)
(*                                                                         *)
(* Numbers are exact extended rationals [n, d] (d = 0: +inf, -inf, nan),   *)
(* standing for the IEEE doubles of the code without their rounding.       *)
(* 1/sqrt(b), arccos(c) and a/b on such roots are kept symbolic.           *)
(***************************************************************************)
EXTENDS Integers, Sequences, FiniteSets, TLC

\* Bounds of the model.
MaxPsr == 3      \* pulsars of the array: 2 .. MaxPsr
MaxCalls == 1    \* direct calls of compute_os on one engine
MaxN == 2        \* N of compute_noise_marginalized_os: 0 .. MaxN
MaxRows == 2     \* rows of a chain: 0 .. MaxRows
MaxFNFCalls == 3 \* direct calls of get_FNF on one engine

None == "None"

----------------------------------------------------------------------------
(* Extended rational arithmetic: the float64 operations of the code.       *)

Abs(x) == IF x < 0 THEN -x ELSE x
Sgn(x) == IF x > 0 THEN 1 ELSE IF x < 0 THEN -1 ELSE 0

RECURSIVE GCD(_, _)
GCD(a, b) == IF b = 0 THEN a ELSE GCD(b, a % b)

\* n/d in lowest terms, d >= 0; d = 0 is +inf (n > 0), -inf (n < 0), nan (n = 0).
Num(n, d) ==
    IF d = 0 THEN [n |-> Sgn(n), d |-> 0]
    ELSE LET g == GCD(Abs(n), d) IN [n |-> n \div g, d |-> d \div g]

Whole(k) == [n |-> k, d |-> 1]
NaN == [n |-> 0, d |-> 0]
IsFinite(a) == a.d # 0
IsPositive(a) == a.d > 0 /\ a.n > 0

Neg(a) == [n |-> -a.n, d |-> a.d]
\* a * b, cancelling across before multiplying (inf * 0 = nan)
Mul(a, b) ==
    IF a.d = 0 \/ b.d = 0 THEN Num(a.n * b.n, 0)
    ELSE LET g1 == GCD(Abs(a.n), b.d)
             g2 == GCD(Abs(b.n), a.d)
         IN  Num((a.n \div g1) * (b.n \div g2), (a.d \div g2) * (b.d \div g1))
\* 1/a: 1/0 = inf, 1/inf = 0, 1/nan = nan.
Recip(a) == Num(IF a.n < 0 THEN -a.d ELSE a.d, Abs(a.n))
Div(a, b) == Mul(a, Recip(b))
\* a + b over the least common denominator (inf + -inf = nan)
Add(a, b) ==
    IF a.d = 0 /\ b.d = 0 THEN (IF a.n = b.n THEN a ELSE NaN)
    ELSE IF a.d = 0 THEN a
    ELSE IF b.d = 0 THEN b
    ELSE LET g == GCD(a.d, b.d)
         IN  Num(a.n * (b.d \div g) + b.n * (a.d \div g), (a.d \div g) * b.d)
Sub(a, b) == Add(a, Neg(b))

RECURSIVE Pow(_, _)
Pow(a, e) == IF e = 0 THEN Whole(1) ELSE Mul(a, Pow(a, e - 1))

\* 1 / np.sqrt(b), kept symbolic; its square is exact.
InvSqrt(b) == [invsqrt |-> b]
\* (1/sqrt(b)) ** 2: nan for b < 0, inf for b = 0, 0 for b = inf.
SqInvSqrt(s) == IF s.invsqrt.n < 0 THEN NaN ELSE Recip(s.invsqrt)
\* np.arccos(c), kept symbolic.
ArcCos(c) == [arccos |-> c]
\* a / s for a symbolic root s (Opt / Sig), kept symbolic.
Quot(a, s) == [num |-> a, den |-> s]

----------------------------------------------------------------------------
(* numpy on vectors (sequences) and matrices (sequences of rows).          *)

\* The function f on 1..n as the sequence <<f[1], ..., f[n]>>.
SeqOf(f) == <<>> \o f

RECURSIVE SumSeq(_)
SumSeq(s) == IF s = <<>> THEN Whole(0) ELSE Add(Head(s), SumSeq(Tail(s)))

\* np.dot of two vectors
Dot(u, v) == SumSeq(SeqOf([k \in 1..Len(u) |-> Mul(u[k], v[k])]))
\* elementwise product of two vectors
VecMul(u, v) == SeqOf([k \in 1..Len(u) |-> Mul(u[k], v[k])])
VecSub(u, v) == SeqOf([k \in 1..Len(u) |-> Sub(u[k], v[k])])
\* np.dot of two matrices
MatMul(A, B) ==
    SeqOf([i \in 1..Len(A) |->
        SeqOf([j \in 1..Len(B[1]) |->
            SumSeq(SeqOf([k \in 1..Len(B) |-> Mul(A[i][k], B[k][j])]))])])
\* np.dot of a matrix and a vector
MatVec(A, v) == SeqOf([i \in 1..Len(A) |-> Dot(A[i], v)])
Transpose(A) == SeqOf([j \in 1..Len(A[1]) |-> SeqOf([i \in 1..Len(A) |-> A[i][j]])])
MatAdd(A, B) == SeqOf([i \in 1..Len(A) |-> SeqOf([j \in 1..Len(A[i]) |-> Add(A[i][j], B[i][j])])])
MatSub(A, B) == SeqOf([i \in 1..Len(A) |-> SeqOf([j \in 1..Len(A[i]) |-> Sub(A[i][j], B[i][j])])])
\* np.trace
Trace(A) == SumSeq(SeqOf([k \in 1..Len(A) |-> A[k][k]]))
\* np.diag of a vector
Diag(v) ==
    SeqOf([i \in 1..Len(v) |->
        SeqOf([j \in 1..Len(v) |-> IF i = j THEN v[i] ELSE Whole(0)])])
\* Z * phi[None, :]: column b of Z scaled by phi[b]
ScaleCols(Z, phi) ==
    SeqOf([a \in 1..Len(Z) |-> SeqOf([b \in 1..Len(Z[a]) |-> Mul(Z[a][b], phi[b])])])

----------------------------------------------------------------------------
(* compute_os, the pair kernel.                                            *)

\* top = np.dot(X[ii], phiIJ * X[jj])
PairTop(Xi, Xj, phiIJ) == Dot(Xi, VecMul(phiIJ, Xj))

PairBotTransposed(Zi, Zj, phiIJ) ==
    Trace(MatMul(ScaleCols(Zi, phiIJ), Transpose(ScaleCols(Zj, phiIJ))))
\* bot = np.trace(np.dot(Z[ii]*phiIJ[None,:], Z[jj]*phiIJ[None,:]))
PairBot(Zi, Zj, phiIJ) ==
    Trace(MatMul(ScaleCols(Zi, phiIJ), ScaleCols(Zj, phiIJ)))

----------------------------------------------------------------------------
(* The noise model adapter (self.pta, enterprise's PTA) and the pulsars.   *)
(* They are inputs of this file: a small concrete array stands for them.   *)
(* Every pulsar has two TOAs and the basis T = I (column 1: timing model,  *)
(* column 2: the Fourier column shared by the red-noise and gw signals);   *)
(* its white noise is N = n * I.                                           *)

\* self.pta.param_names
param_names == <<"efac", "d_jupiter_mass", "gw_gamma">>
Names == {param_names[k] : k \in DOMAIN param_names}
\* The support of each parameter's prior (par.sample()).
Prior(name) == IF name = "gw_gamma" THEN {0, 1, 2} ELSE {0, 1}
TotalParams == {p \in [Names -> {0, 1, 2}] : \A nm \in Names : p[nm] \in Prior(nm)}
Restrict(p, S) == [nm \in S |-> p[nm]]
\* The parameter dictionaries handed to the engine: the complete ones, and
\* the all-zero one with any set of names left out.
ParamDicts ==
    TotalParams \cup {Restrict([nm \in Names |-> 0], S) : S \in SUBSET Names}

\* The adapter's own resolution of a name: the dictionary's value, or the
\* parameter's default when the dictionary lacks the name.
Lookup(params, name) == IF name \in DOMAIN params THEN params[name] ELSE 0

\* sc.white_params, sc.basis_params, sc.delay_params of a signal collection
sc_white_params == <<"efac">>
sc_basis_params == <<>>
sc_delay_params == <<"d_jupiter_mass">>
\* sc._idx: signal -> columns of the basis
sc_idx ==
    << [signal_name |-> "linear timing model", signal_id |-> "", idx |-> <<1>>],
       [signal_name |-> "red noise", signal_id |-> "red_noise", idx |-> <<2>>],
       [signal_name |-> "red noise", signal_id |-> "gw", idx |-> <<2>>] >>
\* sig._labels[''] of the gw signal
gw_labels == <<2>>

\* p.pos of the pulsars: unit vectors along the axes.
Positions ==
    << <<1, 0, 0>>, <<0, 1, 0>>, <<-1, 0, 0>>, <<0, 0, 1>>, <<0, -1, 0>>, <<0, 0, -1>> >>
PsrPos(i) == Positions[((i - 1) % Len(Positions)) + 1]
ToaErr(i) == IF i % 2 = 1 THEN 1 ELSE 2

\* sc.get_ndiag(params): N = n * I, n from the white-noise parameter.
get_ndiag(i, params) == Whole((Lookup(params, "efac") + 1) * ToaErr(i))
\* sc.get_basis(params): T
get_basis(i, params) == << <<Whole(1), Whole(0)>>, <<Whole(0), Whole(1)>> >>
\* sc.get_detres(params): residuals minus the deterministic delay
get_detres(i, params) ==
    LET d == Lookup(params, "d_jupiter_mass")
    IN  <<Whole(1 - d), Whole(i + 1 - d)>>
\* N.solve(v, left_array=L) = L^T N^-1 v, for a vector and for a matrix v
NSolveVec(n, v, L) == SeqOf([k \in 1..Len(L[1]) |-> Div(Dot(Transpose(L)[k], v), n)])
NSolveMat(n, M, L) ==
    LET P == MatMul(Transpose(L), M)
    IN  SeqOf([a \in 1..Len(P) |-> SeqOf([b \in 1..Len(P[a]) |-> Div(P[a][b], n)])])
\* self.pta.get_phiinv(params, logdet=False)[i]: 1-d, or (even pulsars) 2-d.
\* Its values make Sigma = TNT + phiinv positive definite, indefinite (the
\* Cholesky factorization fails, the dense solve works) or singular.
PhiinvOf(g) == IF g = 0 THEN Whole(1) ELSE IF g = 1 THEN Num(-3, 4) ELSE Num(-1, 2)
get_phiinv(i, params) ==
    LET v == SeqOf([k \in 1..2 |-> PhiinvOf(Lookup(params, "gw_gamma"))])
    IN  IF i % 2 = 1 THEN [ndim |-> 1, a |-> v] ELSE [ndim |-> 2, a |-> Diag(v)]
\* self.pta.map_params(xs): the names of the model, in order, onto xs
map_params(xs) ==
    [nm \in {param_names[k] : k \in (DOMAIN param_names) \cap (DOMAIN xs)} |->
        xs[CHOOSE k \in DOMAIN param_names : param_names[k] = nm]]

\* utils.powerlaw(freqs, log10_A=0, gamma): f ** -gamma, constants dropped
powerlaw(freqs, gamma) == SeqOf([k \in 1..Len(freqs) |-> Recip(Pow(Whole(freqs[k]), gamma))])

VDot(p, q) == p[1] * q[1] + p[2] * q[2] + p[3] * q[3]
\* log(omc2) of utils.hd_orf at the separations of Positions
LogOf(x) == IF x = Whole(1) THEN Whole(0) ELSE Num(-7, 10)
\* utils.hd_orf, utils.dipole_orf, utils.monopole_orf
hd_orf(pos1, pos2) ==
    IF pos1 = pos2 THEN Whole(1)
    ELSE LET omc2 == Num(1 - VDot(pos1, pos2), 2)
         IN  Add(Sub(Mul(Mul(Num(3, 2), omc2), LogOf(omc2)), Mul(Num(1, 4), omc2)),
                 Num(1, 2))
dipole_orf(pos1, pos2) ==
    IF pos1 = pos2 THEN Num(100001, 100000) ELSE Whole(VDot(pos1, pos2))
monopole_orf(pos1, pos2) ==
    IF pos1 = pos2 THEN Num(100001, 100000) ELSE Whole(1)
ApplyOrf(f, pos1, pos2) ==
    IF f = "hd_orf" THEN hd_orf(pos1, pos2)
    ELSE IF f = "dipole_orf" THEN dipole_orf(pos1, pos2)
    ELSE monopole_orf(pos1, pos2)

----------------------------------------------------------------------------
(* OptimalStatistic: construction.                                         *)

Range(s) == {s[k] : k \in DOMAIN s}
RECURSIVE SortedSeq(_)
SortedSeq(S) ==
    IF S = {} THEN <<>>
    ELSE LET m == CHOOSE x \in S : \A y \in S : x <= y
         IN  <<m>> \o SortedSeq(S \ {m})

\* for sc in self.pta._signalcollections: lst.extend(sc.<attr>)
RECURSIVE ExtendAll(_, _)
ExtendAll(npsr, lst) == IF npsr = 0 THEN <<>> ELSE ExtendAll(npsr - 1, lst) \o lst

\* _set_cache_parameters
set_cache_parameters(npsr) ==
    [white_params |-> ExtendAll(npsr, sc_white_params),
     basis_params |-> ExtendAll(npsr, sc_basis_params),
     delay_params |-> ExtendAll(npsr, sc_delay_params)]

\* get_Fmats, one pulsar: the columns of the basis that belong to the gw signal
get_Fmat(i, params) ==
    LET ind == SelectSeq(sc_idx, LAMBDA s : s.signal_name = "red noise"
                                            /\ s.signal_id \in {"gw", "gw_crn"})
        ix  == SortedSeq(UNION {Range(ind[k].idx) : k \in DOMAIN ind})
        T   == get_basis(i, params)
    IN  SeqOf([r \in 1..Len(T) |-> SeqOf([c \in 1..Len(ix) |-> T[r][ix[c]]])])
get_Fmats(npsr) == SeqOf([i \in 1..npsr |-> get_Fmat(i, <<>>)])

\* _get_freqs: the labels of the first pulsar's gw signal
get_freqs == gw_labels

SelectOrfAnyName(orf) ==
    IF orf = "dipole" THEN "dipole_orf"
    ELSE IF orf = "monopole" THEN "monopole_orf"
    ELSE "hd_orf"
\* __init__, the choice of the overlap reduction function; "ValueError" is
\* raise ValueError('Unknown ORF!')
SelectOrf(orf) ==
    IF orf = "hd" THEN "hd_orf"
    ELSE IF orf = "dipole" THEN "dipole_orf"
    ELSE IF orf = "monopole" THEN "monopole_orf"
    ELSE "ValueError"

\* No engine: before construction, and after a construction that raised.
NoEngine(status, orf) ==
    [status |-> status, orf_arg |-> orf, orf |-> None, gamma_common |-> <<>>,
     npsr |-> 0, freqs |-> <<>>, Fmats |-> <<>>, psrlocs |-> <<>>,
     white_params |-> <<>>, basis_params |-> <<>>, delay_params |-> <<>>]

\* __init__(psrs, gamma_common, orf): gamma_common is <<>> for None, <<g>> for g
init(npsr, gamma_common, orf) ==
    LET cp == set_cache_parameters(npsr)
        f  == SelectOrf(orf)
    IN  IF f = "ValueError" THEN NoEngine("ValueError", orf)
        ELSE [status |-> "ok", orf_arg |-> orf, orf |-> f,
              gamma_common |-> gamma_common, npsr |-> npsr,
              freqs |-> get_freqs, Fmats |-> get_Fmats(npsr),
              psrlocs |-> SeqOf([i \in 1..npsr |-> PsrPos(i)]),
              white_params |-> cp.white_params,
              basis_params |-> cp.basis_params,
              delay_params |-> cp.delay_params]

----------------------------------------------------------------------------
(* signal_base.cache_call and the cached products.                         *)

RECURSIVE ConcatAttrs(_, _)
ConcatAttrs(engine, attrs) ==
    IF attrs = <<>> THEN <<>>
    ELSE engine[Head(attrs)] \o ConcatAttrs(engine, Tail(attrs))

\* The key of a call: the (name, value) pairs of the parameters the attrs list.
CacheKey(engine, attrs, params) ==
    LET keys == SelectSeq(ConcatAttrs(engine, attrs), LAMBDA nm : nm \in DOMAIN params)
    IN  SeqOf([k \in 1..Len(keys) |-> <<keys[k], params[keys[k]]>>])

\* @signal_base.cache_call(attrs): the body runs once per key.
cache_call(engine, attrs, memo, params, body) ==
    LET key == CacheKey(engine, attrs, params)
    IN  IF key \in DOMAIN memo
        THEN [memo |-> memo, value |-> memo[key], hit |-> TRUE]
        ELSE [memo |-> (key :> body) @@ memo, value |-> body, hit |-> FALSE]

get_FNr_attrs == <<"white_params", "delay_params">>
get_FNF_attrs_with_delay == <<"white_params", "delay_params">>
get_FNF_attrs == <<"white_params">>
get_FNT_attrs == <<"white_params", "basis_params">>

\* get_TNr, get_TNT: straight from the adapter (T^T N^-1 r, T^T N^-1 T)
get_TNr(engine, params) ==
    SeqOf([i \in 1..engine.npsr |->
        NSolveVec(get_ndiag(i, params), get_detres(i, params), get_basis(i, params))])
get_TNT(engine, params) ==
    SeqOf([i \in 1..engine.npsr |->
        NSolveMat(get_ndiag(i, params), get_basis(i, params), get_basis(i, params))])
\* the bodies of get_FNr, get_FNF, get_FNT
FNr_body(engine, params) ==
    SeqOf([i \in 1..engine.npsr |->
        NSolveVec(get_ndiag(i, params), get_detres(i, params), engine.Fmats[i])])
FNF_body(engine, params) ==
    SeqOf([i \in 1..engine.npsr |->
        NSolveMat(get_ndiag(i, params), engine.Fmats[i], engine.Fmats[i])])
FNT_body(engine, params) ==
    SeqOf([i \in 1..engine.npsr |->
        NSolveMat(get_ndiag(i, params), get_basis(i, params), engine.Fmats[i])])
get_FNr(engine, memo, params) ==
    cache_call(engine, get_FNr_attrs, memo, params, FNr_body(engine, params))
get_FNF(engine, memo, params) ==
    cache_call(engine, get_FNF_attrs, memo, params, FNF_body(engine, params))
get_FNT(engine, memo, params) ==
    cache_call(engine, get_FNT_attrs, memo, params, FNT_body(engine, params))

EmptyCache == [FNr |-> <<>>, FNF |-> <<>>, FNT |-> <<>>]

----------------------------------------------------------------------------
(* compute_os.                                                             *)

\* The names compute_os warns about, in the order of the warnings.
MissingWarnings(params) == SelectSeq(param_names, LAMBDA p : p \notin DOMAIN params)

\* The dictionary the matrix products are asked for: params itself; the
\* warning's "Drawing a random value." is followed by no draw.
AdapterParams(params) == params

\* Sigma = TNT + (np.diag(phiinv) if phiinv.ndim == 1 else phiinv)
SigmaOf(TNT, phiinv) ==
    MatAdd(TNT, IF phiinv.ndim = 1 THEN Diag(phiinv.a) ELSE phiinv.a)

\* sl.cho_factor(Sigma) succeeds: Sigma (diagonal here) is positive definite.
cho_factor_ok(S) == \A k \in 1..Len(S) : IsPositive(S[k][k])
\* np.linalg.solve(Sigma, .) raises LinAlgError: Sigma is singular.
solve_raises(S) == \E k \in 1..Len(S) : S[k][k] = Whole(0)
\* the solution of Sigma x = b, and of Sigma X = B, for the diagonal Sigma
SolveVec(S, b) == SeqOf([k \in 1..Len(b) |-> Div(b[k], S[k][k])])
SolveMat(S, B) == SeqOf([k \in 1..Len(B) |-> SeqOf([c \in 1..Len(B[k]) |-> Div(B[k][c], S[k][k])])])

Solved(tried, by, S, TNr, FNT) ==
    [status |-> "ok", tried |-> tried, SigmaTNr_by |-> by, SigmaTNF_by |-> by,
     SigmaTNr |-> SolveVec(S, TNr), SigmaTNF |-> SolveMat(S, Transpose(FNT))]
\* the except branch: np.linalg.solve for both; its LinAlgError is not caught
solve_dense(tried, S, TNr, FNT) ==
    IF solve_raises(S)
    THEN [status |-> "LinAlgError", tried |-> tried, SigmaTNr_by |-> None,
          SigmaTNF_by |-> None, SigmaTNr |-> <<>>, SigmaTNF |-> <<>>]
    ELSE Solved(tried, "solve", S, TNr, FNT)
SolveSigmaDenseOnly(S, TNr, FNT) == solve_dense(<<"solve">>, S, TNr, FNT)
\* try: cho_factor, cho_solve, cho_solve; except np.linalg.LinAlgError: solve, solve
SolveSigma(S, TNr, FNT) ==
    IF cho_factor_ok(S) THEN Solved(<<"cho_factor">>, "cho_solve", S, TNr, FNT)
    ELSE solve_dense(<<"cho_factor", "solve">>, S, TNr, FNT)

\* The body of the loop over the pulsars, for pulsar i of the products P.
PulsarStep(P, i) ==
    LET S == SigmaOf(P.TNTs[i], P.phiinvs[i])
        r == SolveSigma(S, P.TNrs[i], P.FNTs[i])
    IN  IF r.status # "ok" THEN [solve |-> r, Sigma |-> S, X |-> <<>>, Z |-> <<>>]
        ELSE [solve |-> r, Sigma |-> S,
              X |-> VecSub(P.FNrs[i], MatVec(P.FNTs[i], r.SigmaTNr)),
              Z |-> MatSub(P.FNFs[i], MatMul(P.FNTs[i], r.SigmaTNF))]

\* The loop over the pulsars: it stops at the first pulsar whose solve raises.
UpToFirstRaise(all) ==
    IF \A i \in 1..Len(all) : all[i].solve.status = "ok" THEN all
    ELSE SubSeq(all, 1, CHOOSE i \in 1..Len(all) :
                            /\ all[i].solve.status # "ok"
                            /\ \A j \in 1..(i - 1) : all[j].solve.status = "ok")
PulsarLoop(P, npsr) == UpToFirstRaise(SeqOf([i \in 1..npsr |-> PulsarStep(P, i)]))

PairLoopOffByOne(npsr) ==
    LET RECURSIVE inner(_, _), outer(_)
        inner(ii, jj) == IF jj > npsr - 1 THEN <<>> ELSE <<<<ii, jj>>>> \o inner(ii, jj + 1)
        outer(ii) == IF ii > npsr THEN <<>> ELSE inner(ii, ii + 1) \o outer(ii + 1)
    IN  outer(1)
\* for ii in range(npsr): for jj in range(ii+1, npsr): the pairs, in order
PairLoop(npsr) ==
    LET RECURSIVE inner(_, _), outer(_)
        inner(ii, jj) == IF jj > npsr THEN <<>> ELSE <<<<ii, jj>>>> \o inner(ii, jj + 1)
        outer(ii) == IF ii > npsr THEN <<>> ELSE inner(ii, ii + 1) \o outer(ii + 1)
    IN  outer(1)

\* The spectral index of phiIJ: <<>> when powerlaw is handed gamma=None.
GammaOf(engine, params) ==
    IF engine.gamma_common = <<>> /\ "gw_gamma" \in DOMAIN params
    THEN <<params["gw_gamma"]>>
    ELSE engine.gamma_common

\* The body of the loop over the pairs.
PairStep(engine, gamma, X, Z, ii, jj) ==
    LET phiIJ == powerlaw(engine.freqs, gamma)
        top == PairTop(X[ii], X[jj], phiIJ)
        bot == PairBot(Z[ii], Z[jj], phiIJ)
    IN  [rho |-> Div(top, bot),
         sig |-> InvSqrt(bot),
         ORF |-> ApplyOrf(engine.orf, engine.psrlocs[ii], engine.psrlocs[jj]),
         xi  |-> ArcCos(VDot(engine.psrlocs[ii], engine.psrlocs[jj]))]

\* ORF ** 2 / sig ** 2, and its sum
Weights(sig, ORF) == SeqOf([k \in 1..Len(sig) |-> Div(Mul(ORF[k], ORF[k]), SqInvSqrt(sig[k]))])
OSOfWithoutOrf(rho, sig, ORF) ==
    Div(SumSeq(SeqOf([k \in 1..Len(rho) |-> Div(rho[k], SqInvSqrt(sig[k]))])),
        SumSeq(Weights(sig, ORF)))
\* OS = np.sum(rho*ORF / sig ** 2) / np.sum(ORF ** 2 / sig ** 2)
OSOf(rho, sig, ORF) ==
    Div(SumSeq(SeqOf([k \in 1..Len(rho) |-> Div(Mul(rho[k], ORF[k]), SqInvSqrt(sig[k]))])),
        SumSeq(Weights(sig, ORF)))
\* OS_sig = 1 / np.sqrt(np.sum(ORF ** 2 / sig ** 2))
OSSigOf(sig, ORF) == InvSqrt(SumSeq(Weights(sig, ORF)))

Failed(status, params, warned, memo, solves) ==
    [status |-> status, params |-> params, adapter_params |-> AdapterParams(params),
     warnings |-> warned, cache |-> memo, solves |-> solves, X |-> <<>>, Z |-> <<>>,
     xi |-> <<>>, rho |-> <<>>, sig |-> <<>>, ORF |-> <<>>,
     OS |-> NaN, OS_sig |-> InvSqrt(NaN)]

\* The products compute_os asks the engine for, with the caches they leave.
Products(engine, memo, ap) ==
    LET cFNr == get_FNr(engine, memo.FNr, ap)
        cFNF == get_FNF(engine, memo.FNF, ap)
        cFNT == get_FNT(engine, memo.FNT, ap)
    IN  [memo |-> [FNr |-> cFNr.memo, FNF |-> cFNF.memo, FNT |-> cFNT.memo],
         P |-> [TNrs |-> get_TNr(engine, ap), TNTs |-> get_TNT(engine, ap),
                FNrs |-> cFNr.value, FNFs |-> cFNF.value, FNTs |-> cFNT.value,
                phiinvs |-> SeqOf([i \in 1..engine.npsr |-> get_phiinv(i, ap)])]]

SolveTrace(solves) ==
    SeqOf([i \in 1..Len(solves) |-> [Sigma |-> solves[i].Sigma, solve |-> solves[i].solve]])

\* rho, sig, ORF, xi of every pair, then OS and OS_sig
Combine(params, warned, memo, solves, e) ==
    [status |-> "ok", params |-> params, adapter_params |-> AdapterParams(params),
     warnings |-> warned, cache |-> memo, solves |-> SolveTrace(solves),
     X |-> SeqOf([i \in 1..Len(solves) |-> solves[i].X]),
     Z |-> SeqOf([i \in 1..Len(solves) |-> solves[i].Z]),
     xi |-> SeqOf([k \in 1..Len(e) |-> e[k].xi]),
     rho |-> SeqOf([k \in 1..Len(e) |-> e[k].rho]),
     sig |-> SeqOf([k \in 1..Len(e) |-> e[k].sig]),
     ORF |-> SeqOf([k \in 1..Len(e) |-> e[k].ORF]),
     OS |-> OSOf(SeqOf([k \in 1..Len(e) |-> e[k].rho]),
                 SeqOf([k \in 1..Len(e) |-> e[k].sig]),
                 SeqOf([k \in 1..Len(e) |-> e[k].ORF])),
     OS_sig |-> OSSigOf(SeqOf([k \in 1..Len(e) |-> e[k].sig]),
                        SeqOf([k \in 1..Len(e) |-> e[k].ORF]))]

\* The loop over the pairs, for the X and Z the loop over the pulsars left.
PairSteps(engine, gamma, solves, pairs) ==
    SeqOf([k \in 1..Len(pairs) |->
              PairStep(engine, gamma,
                       SeqOf([i \in 1..Len(solves) |-> solves[i].X]),
                       SeqOf([i \in 1..Len(solves) |-> solves[i].Z]),
                       pairs[k][1], pairs[k][2])])

\* compute_os from the loop over the pairs on
AfterSolves(engine, params, warned, memo, solves, gamma, pairs) ==
    IF solves[Len(solves)].solve.status # "ok"
    THEN Failed("LinAlgError", params, warned, memo, SolveTrace(solves))
    ELSE IF gamma = <<>> /\ pairs # <<>>
    THEN Failed("TypeError", params, warned, memo, SolveTrace(solves))
    ELSE Combine(params, warned, memo, solves,
                 PairSteps(engine, gamma[1], solves, pairs))

\* compute_os from the loop over the pulsars on
AfterProducts(engine, params, warned, pr) ==
    AfterSolves(engine, params, warned, pr.memo, PulsarLoop(pr.P, engine.npsr),
                GammaOf(engine, params), PairLoop(engine.npsr))

\* compute_os(params) on an engine whose caches are memo, for a dictionary
\* params (a sampled one when the caller gave None, and then warned = <<>>).
compute_os(engine, memo, params, warned) ==
    AfterProducts(engine, params, warned, Products(engine, memo, AdapterParams(params)))

NoCall == Failed("none", <<>>, <<>>, EmptyCache, <<>>)

----------------------------------------------------------------------------
(* The chain drivers: compute_noise_marginalized_os and                    *)
(* compute_noise_maximized_os. A chain is [ncols, rows]; its last four     *)
(* columns are lnlike, lnprior and two more, the ones before are the       *)
(* parameters.                                                             *)

\* chain[idx, :-4]
RowParams(row) == SubSeq(row, 1, Len(row) - 4)
LastColumn(ncols) == ncols
\* the column chain[:, -4]
LogLikeColumn(ncols) == ncols - 3

\* np.argmax(col): the first index of the greatest value
argmax(col) ==
    CHOOSE i \in 1..Len(col) :
        /\ \A j \in 1..Len(col) : col[j] <= col[i]
        /\ \A j \in 1..(i - 1) : col[j] < col[i]

\* dict(zip(names, xs))
DictZip(names, xs) ==
    LET n == IF Len(names) < Len(xs) THEN Len(names) ELSE Len(xs)
    IN  [nm \in {names[k] : k \in 1..n} |->
            xs[CHOOSE k \in 1..n : names[k] = nm /\ \A m \in (k + 1)..n : names[m] # nm]]

UpdateKeepingOld(d, e) ==
    [nm \in (DOMAIN d) \cup (DOMAIN e) |-> IF nm \in DOMAIN d THEN d[nm] ELSE e[nm]]
\* d.update(e): the entries of e, and those of d under the other names
Update(d, e) ==
    [nm \in (DOMAIN d) \cup (DOMAIN e) |-> IF nm \in DOMAIN e THEN e[nm] ELSE d[nm]]

\* setpars of one iteration of the marginalized loop; names is <<>> for
\* param_names=None and <<list>> for a list
MargSetpars(setpars, names, row) ==
    IF names = <<>> THEN Update(setpars, map_params(RowParams(row)))
    ELSE DictZip(names[1], RowParams(row))
\* setpars of compute_noise_maximized_os
MaxSetpars(names, row) ==
    IF names = <<>> THEN map_params(RowParams(row))
    ELSE DictZip(names[1], RowParams(row))

\* chain.shape[1] - 4 != len(self.pta.param_names): the warning
ShapeWarning(chain) == chain.ncols - 4 # Len(param_names)

LoopCountUpToRows(N, chain) == IF N < Len(chain.rows) THEN N ELSE Len(chain.rows)
\* for ii in range(N)
LoopCount(N, chain) == N

\* np.zeros(N)
zeros(N) == SeqOf([k \in 1..N |-> Whole(0)])

----------------------------------------------------------------------------
(* The state.                                                              *)

VARIABLES
    engine,    \* the OptimalStatistic object (status "none" before __init__)
    cache,     \* the memo tables of get_FNr, get_FNF, get_FNT
    os,        \* what the last call of compute_os did and returned
    ncalls,    \* direct calls of compute_os made so far
    fnf_log,   \* the direct calls of get_FNF: params, hit or not, value
    mg,        \* the run of compute_noise_marginalized_os
    mx,        \* the call of compute_noise_maximized_os
    kin,       \* the arguments of the pair kernel
    kout       \* the value the pair kernel returned

vars == <<engine, cache, os, ncalls, fnf_log, mg, mx, kin, kout>>

OrfArgs == {"hd", "dipole", "monopole", "st"}
GammaArgs == {<<>>, <<1>>}

MgIdle ==
    [pc |-> "idle", chain |-> [ncols |-> 0, rows |-> <<>>], names |-> <<>>, N |-> 0,
     ii |-> 0, setpars |-> <<>>, opt |-> <<>>, sig |-> <<>>, draws |-> <<>>,
     calls |-> <<>>, warned |-> FALSE, status |-> "none",
     ret |-> [opt |-> <<>>, snr |-> <<>>]]
MxIdle ==
    [status |-> "none", chain |-> [ncols |-> 0, rows |-> <<>>], names |-> <<>>,
     idx |-> 0, calls |-> <<>>, warned |-> FALSE, ret |-> <<>>]
KinNone == [Zi |-> <<>>, Zj |-> <<>>, phiIJ |-> <<>>]
KoutNone == [done |-> FALSE, bot |-> NaN]

Init ==
    /\ engine = NoEngine("none", None)
    /\ cache = EmptyCache
    /\ os = NoCall
    /\ ncalls = 0
    /\ fnf_log = <<>>
    /\ mg = MgIdle
    /\ mx = MxIdle
    /\ kin = KinNone
    /\ kout = KoutNone

----------------------------------------------------------------------------
(* The engine: construction, then calls of compute_os.                     *)

\* OptimalStatistic(psrs, gamma_common=..., orf=...)
Construct ==
    /\ engine.status = "none"
    /\ \E npsr \in 2..MaxPsr, g \in GammaArgs, orf \in OrfArgs :
           engine' = init(npsr, g, orf)
    /\ UNCHANGED <<cache, os, ncalls, fnf_log, mg, mx, kin, kout>>

\* compute_os(params) with a dictionary
ComputeOS ==
    /\ engine.status = "ok"
    /\ ncalls < MaxCalls
    /\ \E params \in ParamDicts :
           os' = compute_os(engine, cache, params, MissingWarnings(params))
    /\ cache' = os'.cache
    /\ ncalls' = ncalls + 1
    /\ UNCHANGED <<engine, fnf_log, mg, mx, kin, kout>>

\* compute_os(): params is None, every parameter is sampled from its prior
ComputeOSSampled ==
    /\ engine.status = "ok"
    /\ ncalls < MaxCalls
    /\ \E params \in TotalParams :
           os' = compute_os(engine, cache, params, <<>>)
    /\ cache' = os'.cache
    /\ ncalls' = ncalls + 1
    /\ UNCHANGED <<engine, fnf_log, mg, mx, kin, kout>>

Next == Construct \/ ComputeOS \/ ComputeOSSampled

Spec == Init /\ [][Next]_vars

----------------------------------------------------------------------------
(* The cache of get_FNF: an engine built with the constructor's default    *)
(* orf='hd' and a fixed gamma_common, then direct calls of get_FNF.        *)

\* OptimalStatistic(psrs)
ConstructDefault ==
    /\ engine.status = "none"
    /\ \E npsr \in 2..MaxPsr : engine' = init(npsr, <<4>>, "hd")
    /\ UNCHANGED <<cache, os, ncalls, fnf_log, mg, mx, kin, kout>>

\* get_FNF(params)
GetFNF ==
    /\ engine.status = "ok"
    /\ Len(fnf_log) < MaxFNFCalls
    /\ \E params \in ParamDicts :
           LET r == get_FNF(engine, cache.FNF, params)
           IN  /\ cache' = [cache EXCEPT !.FNF = r.memo]
               /\ fnf_log' = Append(fnf_log,
                                    [params |-> params, hit |-> r.hit, value |-> r.value])
    /\ UNCHANGED <<engine, os, ncalls, mg, mx, kin, kout>>

NextCache == ConstructDefault \/ GetFNF

SpecCache == Init /\ [][NextCache]_vars

----------------------------------------------------------------------------
(* The drivers on an engine built with the constructor's defaults.         *)

\* The rows a chain is made of: three parameter columns and the four last
\* columns, or (a chain of the wrong shape) four parameter columns.
ChainRows ==
    { <<0, 0, 0, 1, 0, 0, 0>>, <<1, 1, 1, 2, 0, 0, 0>>, <<0, 1, 2, 2, 0, 0, 0>> }
WideRows == { <<1, 0, 1, 7, 1, 0, 0, 0>> }
RECURSIVE SeqsUpTo(_, _)
SeqsUpTo(S, n) ==
    IF n = 0 THEN {<<>>}
    ELSE LET shorter == SeqsUpTo(S, n - 1)
         IN  shorter \cup {Append(q, x) : q \in shorter, x \in S}
Chains ==
    {[ncols |-> 7, rows |-> q] : q \in SeqsUpTo(ChainRows, MaxRows)}
    \cup {[ncols |-> 8, rows |-> q] : q \in SeqsUpTo(WideRows, 1)}
\* param_names of the drivers: None, the model's names, a shorter list
NameArgs == {<<>>, <<param_names>>, <<(<<"efac", "gw_gamma">>)>>}

\* compute_noise_marginalized_os(chain, param_names, N), up to the loop
MargStart ==
    /\ engine.status = "ok" /\ mg.pc = "idle" /\ mx.status = "none"
    /\ \E chain \in Chains, names \in NameArgs, N \in 0..MaxN :
           mg' = [MgIdle EXCEPT !.pc = "loop", !.chain = chain, !.names = names,
                                !.N = N, !.warned = ShapeWarning(chain),
                                !.opt = zeros(N), !.sig = zeros(N),
                                !.status = "running"]
    /\ UNCHANGED <<engine, cache, os, ncalls, fnf_log, mx, kin, kout>>

\* the run after the call of compute_os of one iteration returned r or raised
MargAfterCall(m, idx, sp, r) ==
    LET call == [params |-> sp, status |-> r.status, OS |-> r.OS, OS_sig |-> r.OS_sig]
    IN  IF r.status = "ok"
        THEN [m EXCEPT !.ii = m.ii + 1, !.setpars = sp,
                       !.draws = Append(m.draws, idx),
                       !.calls = Append(m.calls, call),
                       !.opt[m.ii + 1] = r.OS,
                       !.sig[m.ii + 1] = r.OS_sig]
        ELSE [m EXCEPT !.pc = "done", !.status = r.status, !.setpars = sp,
                       !.draws = Append(m.draws, idx),
                       !.calls = Append(m.calls, call)]

\* one iteration: draw idx, build setpars, call compute_os, store OS, OS_sig
MargStep ==
    /\ mg.pc = "loop" /\ mg.ii < LoopCount(mg.N, mg.chain)
    /\ IF Len(mg.chain.rows) = 0
       THEN \* np.random.randint(0, 0) raises ValueError
            /\ mg' = [mg EXCEPT !.pc = "done", !.status = "ValueError"]
            /\ UNCHANGED <<cache, os>>
       ELSE \E idx \in 1..Len(mg.chain.rows) :
                \E sp \in {MargSetpars(mg.setpars, mg.names, mg.chain.rows[idx])} :
                    /\ os' = compute_os(engine, cache, sp, MissingWarnings(sp))
                    /\ cache' = os'.cache
                    /\ mg' = MargAfterCall(mg, idx, sp, os')
    /\ UNCHANGED <<engine, ncalls, fnf_log, mx, kin, kout>>

\* return (opt, opt/sig)
MargReturn ==
    /\ mg.pc = "loop" /\ mg.ii >= LoopCount(mg.N, mg.chain)
    /\ mg' = [mg EXCEPT !.pc = "done", !.status = "returned",
                        !.ret = [opt |-> mg.opt,
                                 snr |-> SeqOf([k \in 1..Len(mg.opt) |-> Quot(mg.opt[k], mg.sig[k])])]]
    /\ UNCHANGED <<engine, cache, os, ncalls, fnf_log, mx, kin, kout>>

\* the call of compute_noise_maximized_os after compute_os returned r or raised
MaxAfterCall(start, idx, sp, r) ==
    [start EXCEPT !.idx = idx,
                  !.calls = <<[params |-> sp, status |-> r.status]>>,
                  !.status = IF r.status = "ok" THEN "returned" ELSE r.status,
                  !.ret = IF r.status = "ok"
                          THEN <<r.xi, r.rho, r.sig, r.OS, Quot(r.OS, r.OS_sig)>>
                          ELSE <<>>]

\* idx = np.argmax(chain[:, -4])
MaxLikeRow(chain) ==
    argmax(SeqOf([k \in 1..Len(chain.rows) |-> chain.rows[k][LogLikeColumn(chain.ncols)]]))

\* compute_noise_maximized_os(chain, param_names)
Maximized ==
    /\ engine.status = "ok" /\ mg.pc = "idle" /\ mx.status = "none"
    /\ \E chain \in Chains, names \in NameArgs :
           IF Len(chain.rows) = 0
           THEN \* np.argmax of an empty column raises ValueError
                /\ mx' = [MxIdle EXCEPT !.chain = chain, !.names = names,
                                        !.warned = ShapeWarning(chain),
                                        !.status = "ValueError"]
                /\ UNCHANGED <<cache, os>>
           ELSE \E idx \in {MaxLikeRow(chain)} :
                    \E sp \in {MaxSetpars(names, chain.rows[idx])} :
                        /\ os' = compute_os(engine, cache, sp, MissingWarnings(sp))
                        /\ cache' = os'.cache
                        /\ mx' = MaxAfterCall([MxIdle EXCEPT !.chain = chain,
                                                    !.names = names,
                                                    !.warned = ShapeWarning(chain)],
                                              idx, sp, os')
    /\ UNCHANGED <<engine, ncalls, fnf_log, mg, kin, kout>>

NextDriver == ConstructDefault \/ MargStart \/ MargStep \/ MargReturn \/ Maximized

SpecDriver == Init /\ [][NextDriver]_vars

----------------------------------------------------------------------------
(* The pair kernel on its own: bot for 2 x 2 matrices Z and a shape phiIJ. *)

\* Z = FNF - FNT Sigma^-1 FNT^T is symmetric
SymMats2 ==
    { << <<Whole(a), Whole(b)>>, <<Whole(b), Whole(d)>> >> :
        a \in {0, 1, 2}, b \in {0, 1, 2}, d \in {0, 1, 2} }
Shapes2 == { <<Whole(1), Whole(1)>>, <<Whole(1), Num(1, 2)>>, <<Num(1, 2), Num(1, 4)>> }

InitKernel ==
    /\ engine = NoEngine("none", None)
    /\ cache = EmptyCache
    /\ os = NoCall
    /\ ncalls = 0
    /\ fnf_log = <<>>
    /\ mg = MgIdle
    /\ mx = MxIdle
    /\ kin \in [Zi : SymMats2, Zj : SymMats2, phiIJ : Shapes2]
    /\ kout = KoutNone

ApplyPairBot ==
    /\ ~kout.done
    /\ kout' = [done |-> TRUE, bot |-> PairBot(kin.Zi, kin.Zj, kin.phiIJ)]
    /\ UNCHANGED <<engine, cache, os, ncalls, fnf_log, mg, mx, kin>>

NextKernel == ApplyPairBot

SpecKernel == InitKernel /\ [][NextKernel]_vars

----------------------------------------------------------------------------
(* Claims about compute_os and the construction (specification Spec).      *)

Called == os.status # "none"
Returned == os.status = "ok"
\* the place of the pair (i, j), i < j, in lexicographic order, for P pulsars
LexRank(i, j, P) == (i - 1) * P - ((i * (i - 1)) \div 2) + (j - i)

\* C1: for P >= 2 pulsars compute_os returns xi, rho and sig of exactly
\* P(P-1)/2 entries each, and the k-th entry is the one of the k-th pair
\* (i, j), i < j, in lexicographic order.
C1_PairCountAndOrder ==
    Returned =>
        LET P == engine.npsr
            g == GammaOf(engine, os.params)[1]
        IN  /\ P >= 2
            /\ Len(os.xi) = (P * (P - 1)) \div 2
            /\ Len(os.rho) = (P * (P - 1)) \div 2
            /\ Len(os.sig) = (P * (P - 1)) \div 2
            /\ \A i \in 1..P : \A j \in (i + 1)..P :
                   LET k == LexRank(i, j, P)
                       e == PairStep(engine, g, os.X, os.Z, i, j)
                   IN  /\ os.xi[k] = ArcCos(VDot(PsrPos(i), PsrPos(j)))
                       /\ os.rho[k] = e.rho
                       /\ os.sig[k] = e.sig
C1_Witness ==
    /\ Returned
    /\ engine.npsr = 3
    /\ Len(os.rho) = 3
    /\ os.xi[2] = ArcCos(-1)
    /\ os.rho[1] # os.rho[3]

\* C3: when the dictionary omits a name of param_names, compute_os warns about
\* the name and goes on with a value drawn from that parameter's prior in the
\* place of the missing one.
C3_MissingParamDrawn ==
    Called =>
        \A nm \in Names \ DOMAIN os.params :
            /\ nm \in Range(os.warnings)
            /\ nm \in DOMAIN os.adapter_params
            /\ os.adapter_params[nm] \in Prior(nm)

\* C6: for every pulsar the solve of Sigma is first tried by Cholesky; the
\* dense solver runs only after the Cholesky attempt failed, and then gives
\* both Sigma^-1 TNr and Sigma^-1 FNT^T; a failure of the dense solver itself
\* ends compute_os with that LinAlgError.
C6_CholeskyThenDense ==
    \A k \in 1..Len(os.solves) :
        LET S == os.solves[k].Sigma
            r == os.solves[k].solve
        IN  /\ r.tried[1] = "cho_factor"
            /\ cho_factor_ok(S) =>
                   /\ r.tried = <<"cho_factor">>
                   /\ r.SigmaTNr_by = "cho_solve" /\ r.SigmaTNF_by = "cho_solve"
            /\ (~cho_factor_ok(S) /\ ~solve_raises(S)) =>
                   /\ r.tried = <<"cho_factor", "solve">>
                   /\ r.SigmaTNr_by = "solve" /\ r.SigmaTNF_by = "solve"
                   /\ r.status = "ok"
            /\ (~cho_factor_ok(S) /\ solve_raises(S)) =>
                   /\ r.tried = <<"cho_factor", "solve">>
                   /\ r.status = "LinAlgError"
                   /\ os.status = "LinAlgError"
                   /\ k = Len(os.solves)
                   /\ os.rho = <<>>
C6_Witness ==
    /\ Returned
    /\ \E k \in 1..Len(os.solves) :
           /\ os.solves[k].solve.tried = <<"cho_factor", "solve">>
           /\ os.solves[k].solve.SigmaTNr_by = "solve"
    /\ \E k \in 1..Len(os.solves) : os.solves[k].solve.SigmaTNr_by = "cho_solve"

\* C7: an orf name other than 'hd', 'dipole', 'monopole' makes the
\* construction raise ValueError and leaves no engine; with one of the three
\* the matching overlap reduction function is selected and is the one every
\* later compute_os uses.
C7_OrfFor(name) ==
    IF name = "hd" THEN "hd_orf" ELSE IF name = "dipole" THEN "dipole_orf" ELSE "monopole_orf"
C7_OrfSelection ==
    engine.status # "none" =>
        IF engine.orf_arg \in {"hd", "dipole", "monopole"}
        THEN /\ engine.status = "ok"
             /\ engine.orf = C7_OrfFor(engine.orf_arg)
             /\ Returned =>
                    \A i \in 1..engine.npsr : \A j \in (i + 1)..engine.npsr :
                        os.ORF[LexRank(i, j, engine.npsr)] =
                            ApplyOrf(C7_OrfFor(engine.orf_arg), PsrPos(i), PsrPos(j))
        ELSE /\ engine.status = "ValueError"
             /\ engine.npsr = 0
             /\ ~Called
C7_Witness ==
    /\ engine.orf_arg = "dipole"
    /\ Returned
    /\ os.ORF[1] = Whole(0)

\* C8 as stated: with 2 pulsars the rho of the single pair equals OS exactly.
C8_RhoEqualsOS ==
    (Returned /\ engine.npsr = 2) => os.OS = os.rho[1]
\* C8, amended: with 2 pulsars, when the pair's ORF is not 0 and its
\* denominator bot is positive, OS equals rho / ORF of the pair (and so equals
\* rho when ORF = 1, as with the monopole ORF); with ORF = 0 or bot <= 0 OS
\* is nan.
C8_OSIsRhoOverORF ==
    (Returned /\ engine.npsr = 2) =>
        IF os.ORF[1] # Whole(0) /\ IsPositive(os.sig[1].invsqrt)
        THEN /\ os.OS = Div(os.rho[1], os.ORF[1])
             /\ IsFinite(os.OS)
             /\ os.ORF[1] = Whole(1) => os.OS = os.rho[1]
        ELSE os.OS = NaN
C8_Witness ==
    /\ Returned /\ engine.npsr = 2
    /\ os.ORF[1] = Num(-3, 20)
    /\ os.OS = Div(os.rho[1], os.ORF[1])
    /\ IsFinite(os.OS) /\ os.OS # os.rho[1]

----------------------------------------------------------------------------
(* Claims about the pair kernel (specification SpecKernel).                *)

\* sum over a, b of Zi[a][b] * phi[b] * Zj[b][a] * phi[a]
TraceOfProduct(Zi, Zj, phi) ==
    SumSeq(SeqOf([a \in 1..Len(Zi) |->
        SumSeq(SeqOf([b \in 1..Len(Zj) |->
            Mul(Mul(Zi[a][b], phi[b]), Mul(Zj[b][a], phi[a]))]))]))

\* C9 as stated: the denominator of rho and sig of a pair is
\* trace((Z_i * shape) . (Z_j * shape)^T), with the transpose of the
\* column-scaled Z_j.
C9_BotIsTraceWithTranspose ==
    kout.done => kout.bot = PairBotTransposed(kin.Zi, kin.Zj, kin.phiIJ)
\* C9, amended: the denominator is trace((Z_i * shape) . (Z_j * shape)), the
\* product with the column-scaled Z_j itself and no transpose, that is the
\* sum over a, b of Z_i[a][b] shape[b] Z_j[b][a] shape[a]; for the symmetric
\* Z of compute_os it is the transposed form only when the two agree, as
\* they do for a shape that is the same at every frequency.
C9_BotIsTraceOfProduct ==
    kout.done =>
        /\ kout.bot = TraceOfProduct(kin.Zi, kin.Zj, kin.phiIJ)
        /\ (\A a, b \in 1..Len(kin.phiIJ) : kin.phiIJ[a] = kin.phiIJ[b]) =>
               kout.bot = PairBotTransposed(kin.Zi, kin.Zj, kin.phiIJ)
C9_Witness ==
    /\ kout.done
    /\ kin.Zi = << <<Whole(0), Whole(1)>>, <<Whole(1), Whole(0)>> >>
    /\ kin.Zj = kin.Zi
    /\ kin.phiIJ = <<Whole(1), Num(1, 2)>>
    /\ kout.bot = Whole(1)
    /\ PairBotTransposed(kin.Zi, kin.Zj, kin.phiIJ) = Num(5, 4)

----------------------------------------------------------------------------
(* Claims about the cache of get_FNF (specification SpecCache).            *)

\* two dictionaries give the white-noise parameters the same values
AgreeOnWhite(p, q) ==
    \A k \in 1..Len(sc_white_params) :
        LET nm == sc_white_params[k]
        IN  /\ (nm \in DOMAIN p) <=> (nm \in DOMAIN q)
            /\ (nm \in DOMAIN p) => p[nm] = q[nm]

\* C4: in any sequence of get_FNF calls on one engine, a call whose
\* dictionary differs from an earlier call's only in parameters that are not
\* white-noise parameters is a cache hit and returns that call's FNF; a call
\* whose white-noise values differ from those of every earlier call
\* recomputes FNF.
C4_FNFCacheKey ==
    \A j \in 1..Len(fnf_log) :
        LET earlier == {i \in 1..(j - 1) :
                           AgreeOnWhite(fnf_log[i].params, fnf_log[j].params)}
        IN  /\ earlier # {} =>
                   /\ fnf_log[j].hit
                   /\ \A i \in earlier : fnf_log[j].value = fnf_log[i].value
            /\ earlier = {} => ~fnf_log[j].hit
C4_Witness ==
    /\ Len(fnf_log) = 3
    /\ fnf_log[1].params # fnf_log[3].params
    /\ "d_jupiter_mass" \in DOMAIN fnf_log[1].params
    /\ "d_jupiter_mass" \in DOMAIN fnf_log[3].params
    /\ fnf_log[1].params["d_jupiter_mass"] # fnf_log[3].params["d_jupiter_mass"]
    /\ AgreeOnWhite(fnf_log[1].params, fnf_log[3].params)
    /\ ~AgreeOnWhite(fnf_log[1].params, fnf_log[2].params)
    /\ ~fnf_log[1].hit /\ ~fnf_log[2].hit /\ fnf_log[3].hit
    /\ fnf_log[2].value # fnf_log[1].value

----------------------------------------------------------------------------
(* Claims about the chain drivers (specification SpecDriver).              *)

\* The dictionary of one chain row alone: the names (the model's when
\* param_names is None) with the row's columns but the last four.
RowAssignment(names, row) ==
    LET ns == IF names = <<>> THEN param_names ELSE names[1]
        n  == IF Len(ns) < Len(row) - 4 THEN Len(ns) ELSE Len(row) - 4
    IN  [nm \in {ns[k] : k \in 1..n} |-> row[CHOOSE k \in 1..n : ns[k] = nm]]

MargDone == mg.pc = "done"
MargReturned == mg.pc = "done" /\ mg.status = "returned"
AllCallsReturned == \A k \in 1..Len(mg.calls) : mg.calls[k].status = "ok"
\* the run made N draws and N calls and returned two arrays of N entries
ExactlyN ==
    /\ Len(mg.draws) = mg.N /\ Len(mg.calls) = mg.N
    /\ Len(mg.ret.opt) = mg.N /\ Len(mg.ret.snr) = mg.N

C10_NoCarryOver ==
    \A ii \in 1..Len(mg.calls) :
        mg.calls[ii].params = RowAssignment(mg.names, mg.chain.rows[mg.draws[ii]])
C10_Witness ==
    /\ MargReturned
    /\ mg.names = <<>>
    /\ mg.draws = <<2, 1>>
    /\ mg.chain.rows[1] = <<0, 0, 0, 1, 0, 0, 0>>
    /\ mg.chain.rows[2] = <<1, 1, 1, 2, 0, 0, 0>>
    /\ mg.calls[1].params = [nm \in Names |-> 1]
    /\ mg.calls[2].params = [nm \in Names |-> 0]

\* C5: compute_noise_maximized_os calls compute_os exactly once, with the
\* dictionary of the (first) row whose entry in the column fourth from the
\* end is the greatest, built from all the columns of the row but the last
\* four, and returns xi, rho, sig and OS of that call and OS / OS_sig.
C5_MaximizedOneCall ==
    /\ (mx.status # "none" /\ Len(mx.chain.rows) >= 1) => Len(mx.calls) = 1
    /\ mx.status = "returned" =>
           LET rows == mx.chain.rows
               like(k) == rows[k][Len(rows[k]) - 3]
           IN  /\ mx.idx \in 1..Len(rows)
               /\ \A k \in 1..Len(rows) : like(k) <= like(mx.idx)
               /\ \A k \in 1..(mx.idx - 1) : like(k) < like(mx.idx)
               /\ mx.calls[1].params = RowAssignment(mx.names, rows[mx.idx])
               /\ os.params = mx.calls[1].params
               /\ os.status = "ok"
               /\ mx.ret = <<os.xi, os.rho, os.sig, os.OS, Quot(os.OS, os.OS_sig)>>
C5_Witness ==
    /\ mx.status = "returned"
    /\ Len(mx.chain.rows) = 2
    /\ mx.idx = 2
    /\ mx.chain.rows[2][4] > mx.chain.rows[1][4]
    /\ mx.ret[4] = os.OS

====
